---- MODULE Spec2Model ----
(***************************************************************************)
(* Model of app.py: the fraud digest (get_dataset_summary), the process-   *)
(* wide conversation_history and the two routes that change it            *)
(* (chat_route, clear_chat).                                               *)
(*                                                                         *)
(* Numbers.  pandas percentages are floats rounded to 2 decimals; here a   *)
(* percentage is an integer number of hundredths of a percent (5000 is    *)
(* 50.00%).  fraud_rate is kept as the exact fraction num/den.            *)
(*                                                                         *)
(* Text.  A message body is the sequence of its pieces, so that the       *)
(* f-string of chat_route is a 5-piece sequence and a plain question a    *)
(* 1-piece sequence.                                                       *)
(*                                                                         *)
(* Not modelled: Purchase_Amount / Customer_Age statistics and the        *)
(* Transaction_Time note (lines 129-147), the header's text formatting,   *)
(* missing cells (NaN), the index route.                                   *)
(***************************************************************************)
EXTENDS Integers, Sequences, FiniteSets, TLC

\* ------------------------------------------------------------------ bounds
MaxFraud    == 12   \* rows with Fraud_Flag = 1 in a dataset of SpecDigest
MaxLegit    == 1    \* rows with Fraud_Flag = 0 in a dataset of SpecDigest
MaxRequests == 2    \* chat requests received in one behaviour of Spec
MaxClears   == 1    \* clear requests handled in one behaviour of Spec
MaxSeqRequests == 4 \* chat requests received in one behaviour of SpecSeq
MaxSeqClears   == 2 \* clear requests handled in one behaviour of SpecSeq

\* --------------------------------------------------------------- constants
TopN == 10          \* .head(10) of the Store_ID and Location breakdowns

Workers   == {"w1", "w2"}          \* request-handling threads of the server
Questions == {"q1", "q2"}          \* request.json["message"]
Replies   == {"r1"}                \* response.content of the answering service
Failures  == {"quota"}             \* str(e) of a failed chat.invoke

FullColumns  == {"Fraud_Flag", "Payment_Method", "Store_ID"}
AllSections  == {"Payment_Method", "Store_ID"}
TopSections  == {"Store_ID"}

\* The literal of clear_chat after an edit that the startup literal did not get.
SYSTEM_PROMPT_EDITED == "You are a fraud detection analyst assistant. ..."

\* The text of the SystemMessage built at import time and the one built by
\* clear_chat: two literals in the source, character for character equal.
SYSTEM_PROMPT_STARTUP == "You are a professional fraud detection analyst assistant. ..."
SYSTEM_PROMPT_CLEAR   == "You are a professional fraud detection analyst assistant. ..."

PROMPT_HEAD     == "You have access to a cosmetics fraud detection dataset. Here's a summary:"
PROMPT_ASK      == "Now answer this question clearly and professionally:"
PROMPT_REMINDER == "Remember to: ... - Avoid messy formatting"
ERROR_PREFIX    == "Error: "
NOT_AVAILABLE   == "Dataset not available."
CLEARED_REPLY   == "Chat history cleared."

\* ------------------------------------------------------------------- turns
\* req is the number of the chat request that wrote the turn (0: none); it is
\* bookkeeping of the model, the program's messages carry role and content.
SystemMessage(content) == [role |-> "system", content |-> content, req |-> 0]
HumanMessage(content, r) == [role |-> "human", content |-> content, req |-> r]
AIMessage(content, r) == [role |-> "ai", content |-> content, req |-> r]

\* ----------------------------------------------------------------- dataset
\* df is None (the load failed) or a table: its columns and its rows in file
\* order, a row being a function from the columns to cell values.
DfNone == [loaded |-> FALSE, columns |-> {}, rows |-> << >>]
DataFrame(columns, rows) == [loaded |-> TRUE, columns |-> columns, rows |-> rows]

Min(a, b) == IF a <= b THEN a ELSE b

\* A row of the generated datasets.  g is the group of the row; every
\* categorical column of the row holds the label g.
MakeRow(columns, flag, g) ==
  [c \in columns |-> IF c = "Fraud_Flag" THEN flag ELSE g]

\* The dataset with `legit` rows of flag 0 (category 1) followed by n rows of
\* flag 1 whose categories are 1, 2, ... in order of first occurrence, a new
\* category starting after each row of `cuts`.
MakeDf(columns, legit, n, cuts) ==
  DataFrame(columns,
    [i \in 1..(legit + n) |->
       IF i <= legit
       THEN MakeRow(columns, 0, 1)
       ELSE MakeRow(columns, 1, 1 + Cardinality({c \in cuts : c < i - legit}))])

\* The datasets the digest is checked on: with all columns, every sequence of
\* category counts over up to MaxFraud fraud rows (every multiset of counts in
\* every order of first occurrence); with a column missing, the small ones.
IsDigestDataset(frame) ==
  \/ frame = DfNone
  \/ \E legit \in 0..MaxLegit, n \in 0..MaxFraud :
       \E cuts \in SUBSET (1..(n - 1)) :
         frame = MakeDf(FullColumns, legit, n, cuts)
  \/ \E legit \in 0..MaxLegit, n \in 0..Min(2, MaxFraud) :
       \E cols \in {FullColumns \ {"Fraud_Flag"}, {"Fraud_Flag"}, {"Fraud_Flag", "Store_ID"}} :
         frame = MakeDf(cols, legit, n, {1})

\* The datasets of the conversation model: no dataset, and one small table.
ChatDatasets ==
  {DfNone, MakeDf(FullColumns, 1, 2, {1})}

\* ------------------------------------------------------------------ digest
RECURSIVE SumSeq(_)
SumSeq(s) == IF s = << >> THEN 0 ELSE Head(s) + SumSeq(Tail(s))

Column(frame, c) == [i \in 1..Len(frame.rows) |-> frame.rows[i][c]]

\* len(df)
total_transactions(frame) == Len(frame.rows)

\* df['Fraud_Flag'].sum() if 'Fraud_Flag' in df.columns else 0
fraud_count(frame) ==
  IF "Fraud_Flag" \in frame.columns THEN SumSeq(Column(frame, "Fraud_Flag")) ELSE 0

\* fraud_rate without the guard on total_transactions
fraud_rate_unguarded(count, total) == [num |-> count * 100, den |-> total]

\* (fraud_count / total_transactions * 100) if total_transactions > 0 else 0
fraud_rate(count, total) ==
  IF total > 0 THEN [num |-> count * 100, den |-> total] ELSE [num |-> 0, den |-> 1]

\* df[df['Fraud_Flag'] == 1] if 'Fraud_Flag' in df.columns else pd.DataFrame()
fraud_df(frame) ==
  IF "Fraud_Flag" \in frame.columns
  THEN DataFrame(frame.columns, SelectSeq(frame.rows, LAMBDA r : r["Fraud_Flag"] = 1))
  ELSE DataFrame({}, << >>)

\* Series.value_counts(): one entry per distinct value, by descending count,
\* equal counts in order of first occurrence.
value_counts(s) ==
  LET n      == Len(s)
      firsts == {i \in 1..n : \A j \in 1..(i - 1) : s[j] # s[i]}
      cnt    == [i \in firsts |-> Cardinality({j \in 1..n : s[j] = s[i]})]
      rank   == [i \in firsts |->
                   1 + Cardinality({h \in firsts :
                         \/ cnt[h] > cnt[i]
                         \/ cnt[h] = cnt[i] /\ h < i})]
  IN  [k \in 1..Cardinality(firsts) |->
         LET i == CHOOSE f \in firsts : rank[f] = k
         IN  [value |-> s[i], count |-> cnt[i]]]

\* Series.head(k)
head(s, k) == SubSeq(s, 1, Min(k, Len(s)))

\* Rounding num/den to an integer as numpy does: to nearest, a tie to even.
RoundHalfEven(num, den) ==
  LET q == num \div den
      r == num % den
  IN  IF 2 * r < den THEN q
      ELSE IF 2 * r > den THEN q + 1
      ELSE IF q % 2 = 0 THEN q ELSE q + 1

\* the percentage cut to 2 decimals instead of rounded
percentage_truncated(count, n) == (count * 10000) \div n

\* (counts / len(fraud_df) * 100).round(2), in hundredths of a percent
percentage(count, n) == RoundHalfEven(count * 10000, n)

\* a breakdown that forgets .head(10)
ListedUntruncated(section, counts) == counts

\* How many entries of value_counts a section prints.
Listed(section, counts) ==
  IF section \in TopSections THEN head(counts, TopN) ELSE counts

\* The lines of one breakdown: "  - {value}: {count} transactions ({pct}%)"
Breakdown(frame, section) ==
  LET counts == value_counts(Column(frame, section))
      shown  == Listed(section, counts)
      n      == Len(frame.rows)
  IN  [k \in 1..Len(shown) |->
         [value |-> shown[k].value,
          count |-> shown[k].count,
          pct   |-> percentage(shown[k].count, n)]]

NoSummary ==
  [kind |-> "unset", total_transactions |-> 0, fraud_count |-> 0,
   fraud_rate |-> [num |-> 0, den |-> 1], fraud_rows |-> 0,
   sections |-> [c \in {} |-> << >>]]

\* get_dataset_summary(): the report as a record instead of a string.
\* sections maps every breakdown that is emitted to its lines.
get_dataset_summary(frame) ==
  IF ~frame.loaded
  THEN [NoSummary EXCEPT !.kind = NOT_AVAILABLE]
  ELSE LET total == total_transactions(frame)
           count == fraud_count(frame)
           fraud == fraud_df(frame)
       IN  [kind               |-> "report",
            total_transactions |-> total,
            fraud_count        |-> count,
            fraud_rate         |-> fraud_rate(count, total),
            fraud_rows         |-> Len(fraud.rows),
            sections           |->
              IF Len(fraud.rows) > 0
              THEN [c \in AllSections \cap fraud.columns |-> Breakdown(fraud, c)]
              ELSE [c \in {} |-> << >>]]

\* ------------------------------------------------------------------- state
VARIABLES
  df,                    \* the dataset loaded at import time, or DfNone
  conversation_history,  \* the process-wide list of messages
  pc,                    \* pc[w]: the line of chat_route worker w is about to run
  user_message,          \* locals of chat_route, per worker
  dataset_summary,
  transcript_sent,       \* the list chat.invoke was called with
  exception,             \* the failure caught at line 185, "none" if none
  ai_response,
  request,               \* request[w]: the number of the request w is handling
  nrequests,             \* chat requests received so far
  nclears,               \* clear requests handled so far
  cleared_at,            \* nrequests when clear_chat last ran
  last                   \* the step taken last, and the HTTP reply if it returned one

vars ==
  <<df, conversation_history, pc, user_message, dataset_summary, transcript_sent,
    exception, ai_response, request, nrequests, nclears, cleared_at, last>>

locals == <<user_message, dataset_summary, transcript_sent, exception, ai_response, request>>

Step(name, w, r, e, reply) ==
  [step |-> name, worker |-> w, req |-> r, exception |-> e, reply |-> reply]

\* conversation_history = [SystemMessage(content="""...""")], lines 25-38
InitialHistory == << SystemMessage(SYSTEM_PROMPT_STARTUP) >>

\* the list clear_chat builds, lines 196-209
ClearedHistory == << SystemMessage(SYSTEM_PROMPT_CLEAR) >>

InitRest ==
  /\ conversation_history = InitialHistory
  /\ pc = [w \in Workers |-> "idle"]
  /\ user_message = [w \in Workers |-> "none"]
  /\ dataset_summary = [w \in Workers |-> NoSummary]
  /\ transcript_sent = [w \in Workers |-> << >>]
  /\ exception = [w \in Workers |-> "none"]
  /\ ai_response = [w \in Workers |-> << >>]
  /\ request = [w \in Workers |-> 0]
  /\ nrequests = 0
  /\ nclears = 0
  /\ cleared_at = 0
  /\ last = Step("start", "none", 0, "none", << >>)

Init ==
  /\ df \in ChatDatasets
  /\ InitRest

\* The f-string of lines 164-178: the summary, then the question, then the
\* formatting reminder.
Compose(summary, question) ==
  << PROMPT_HEAD, summary, PROMPT_ASK, question, PROMPT_REMINDER >>

\* conversation_history[-1] = message
SetLast(history, message) == [history EXCEPT ![Len(history)] = message]

\* ------------------------------------------------------------- chat_route
\* lines 153-156: read the message, append it as a HumanMessage
Receive(w, q) ==
  /\ pc[w] = "idle"
  /\ nrequests' = nrequests + 1
  /\ request' = [request EXCEPT ![w] = nrequests + 1]
  /\ user_message' = [user_message EXCEPT ![w] = q]
  /\ conversation_history' =
       Append(conversation_history, HumanMessage(<< q >>, nrequests + 1))
  /\ pc' = [pc EXCEPT ![w] = "L160"]
  /\ last' = Step("Receive", w, nrequests + 1, "none", << >>)
  /\ UNCHANGED <<df, dataset_summary, transcript_sent, exception, ai_response,
                 nclears, cleared_at>>

\* lines 159-160: df is not None, so the summary is computed
Summarize(w) ==
  /\ pc[w] = "L160"
  /\ df.loaded
  /\ dataset_summary' = [dataset_summary EXCEPT ![w] = get_dataset_summary(df)]
  /\ pc' = [pc EXCEPT ![w] = "L163"]
  /\ last' = Step("Summarize", w, request[w], "none", << >>)
  /\ UNCHANGED <<df, conversation_history, user_message, transcript_sent, exception,
                 ai_response, request, nrequests, nclears, cleared_at>>

\* line 159: df is None, lines 160-179 are skipped
NoDataset(w) ==
  /\ pc[w] = "L160"
  /\ ~df.loaded
  /\ pc' = [pc EXCEPT ![w] = "L183"]
  /\ last' = Step("NoDataset", w, request[w], "none", << >>)
  /\ UNCHANGED <<df, conversation_history, locals, nrequests, nclears, cleared_at>>

\* the composed message appended, the plain question left in place
RewriteAppends(w) ==
  /\ pc[w] = "L163"
  /\ conversation_history' =
       Append(conversation_history,
              HumanMessage(Compose(dataset_summary[w], user_message[w]), request[w]))
  /\ pc' = [pc EXCEPT ![w] = "L183"]
  /\ last' = Step("Rewrite", w, request[w], "none", << >>)
  /\ UNCHANGED <<df, locals, nrequests, nclears, cleared_at>>

\* lines 163-179: the last message of the list, whichever it is by now, is
\* replaced by the composed message
Rewrite(w) ==
  /\ pc[w] = "L163"
  /\ conversation_history' =
       SetLast(conversation_history,
               HumanMessage(Compose(dataset_summary[w], user_message[w]), request[w]))
  /\ pc' = [pc EXCEPT ![w] = "L183"]
  /\ last' = Step("Rewrite", w, request[w], "none", << >>)
  /\ UNCHANGED <<df, locals, nrequests, nclears, cleared_at>>

\* line 183: chat.invoke is called with the list as it is now
Invoke(w) ==
  /\ pc[w] = "L183"
  /\ transcript_sent' = [transcript_sent EXCEPT ![w] = conversation_history]
  /\ pc' = [pc EXCEPT ![w] = "pending"]
  /\ last' = Step("Invoke", w, request[w], "none", << >>)
  /\ UNCHANGED <<df, conversation_history, user_message, dataset_summary, exception,
                 ai_response, request, nrequests, nclears, cleared_at>>

\* lines 183-184: the call returns, ai_response = response.content
InvokeReturns(w, r) ==
  /\ pc[w] = "pending"
  /\ ai_response' = [ai_response EXCEPT ![w] = << r >>]
  /\ pc' = [pc EXCEPT ![w] = "L189"]
  /\ last' = Step("InvokeReturns", w, request[w], "none", << >>)
  /\ UNCHANGED <<df, conversation_history, user_message, dataset_summary,
                 transcript_sent, exception, request, nrequests, nclears, cleared_at>>

\* chat.invoke without the try: the failure leaves chat_route, nothing is appended
InvokeRaisesUncaught(w, e) ==
  /\ pc[w] = "pending"
  /\ pc' = [pc EXCEPT ![w] = "idle"]
  /\ last' = Step("InvokeRaises", w, request[w], e, << >>)
  /\ user_message' = [user_message EXCEPT ![w] = "none"]
  /\ dataset_summary' = [dataset_summary EXCEPT ![w] = NoSummary]
  /\ transcript_sent' = [transcript_sent EXCEPT ![w] = << >>]
  /\ request' = [request EXCEPT ![w] = 0]
  /\ UNCHANGED <<df, conversation_history, exception, ai_response, nrequests, nclears,
                 cleared_at>>

\* lines 185-186: the call raises e, ai_response = f"Error: {str(e)}"
InvokeRaises(w, e) ==
  /\ pc[w] = "pending"
  /\ exception' = [exception EXCEPT ![w] = e]
  /\ ai_response' = [ai_response EXCEPT ![w] = << ERROR_PREFIX, e >>]
  /\ pc' = [pc EXCEPT ![w] = "L189"]
  /\ last' = Step("InvokeRaises", w, request[w], e, << >>)
  /\ UNCHANGED <<df, conversation_history, user_message, dataset_summary,
                 transcript_sent, request, nrequests, nclears, cleared_at>>

\* lines 189-191: append the AIMessage and return {"reply": ai_response}; the
\* locals die with the call
AppendReply(w) ==
  /\ pc[w] = "L189"
  /\ conversation_history' =
       Append(conversation_history, AIMessage(ai_response[w], request[w]))
  /\ pc' = [pc EXCEPT ![w] = "idle"]
  /\ last' = Step("AppendReply", w, request[w], exception[w], ai_response[w])
  /\ user_message' = [user_message EXCEPT ![w] = "none"]
  /\ dataset_summary' = [dataset_summary EXCEPT ![w] = NoSummary]
  /\ transcript_sent' = [transcript_sent EXCEPT ![w] = << >>]
  /\ exception' = [exception EXCEPT ![w] = "none"]
  /\ ai_response' = [ai_response EXCEPT ![w] = << >>]
  /\ request' = [request EXCEPT ![w] = 0]
  /\ UNCHANGED <<df, nrequests, nclears, cleared_at>>

\* ------------------------------------------------------------- clear_chat
\* lines 195-210: the global is rebound to a fresh one-message list
clear_chat ==
  /\ nclears' = nclears + 1
  /\ cleared_at' = nrequests
  /\ conversation_history' = ClearedHistory
  /\ last' = Step("clear_chat", "none", 0, "none", << CLEARED_REPLY >>)
  /\ UNCHANGED <<df, pc, locals, nrequests>>

\* --------------------------------------------------------- specifications
AllIdle == \A w \in Workers : pc[w] = "idle"

Continue(w) ==
  \/ Summarize(w)
  \/ NoDataset(w)
  \/ Rewrite(w)
  \/ Invoke(w)
  \/ \E r \in Replies : InvokeReturns(w, r)
  \/ \E e \in Failures : InvokeRaises(w, e)
  \/ AppendReply(w)

\* The threaded server: requests are handled concurrently, a step at a time.
Next ==
  \/ nrequests < MaxRequests /\ \E w \in Workers, q \in Questions : Receive(w, q)
  \/ \E w \in Workers : Continue(w)
  \/ nclears < MaxClears /\ clear_chat

Spec == Init /\ [][Next]_vars

\* Requests run to completion one after another: a request is received only
\* when no other is in flight.
NextSeq ==
  \/ /\ AllIdle
     /\ nrequests < MaxSeqRequests
     /\ \E w \in Workers, q \in Questions : Receive(w, q)
  \/ \E w \in Workers : Continue(w)
  \/ /\ AllIdle
     /\ nclears < MaxSeqClears
     /\ clear_chat

SpecSeq == Init /\ [][NextSeq]_vars

\* The digest builder on its own: one request, on each dataset of
\* IsDigestDataset, up to the call of get_dataset_summary.
InitDigest ==
  /\ IsDigestDataset(df)
  /\ InitRest

NextDigest ==
  \/ nrequests = 0 /\ Receive("w1", "q1")
  \/ Summarize("w1")
  \/ NoDataset("w1")

SpecDigest == InitDigest /\ [][NextDigest]_vars

\* ================================================================ claims
history == conversation_history

IsPlain(t)    == t.role = "human" /\ Len(t.content) = 1
IsComposed(t) == t.role = "human" /\ Len(t.content) = 5

\* After the first turn the transcript is a run of pairs: a human turn and
\* then the ai turn of the same request, no request twice.
PairedAfterFirst(h) ==
  /\ Len(h) % 2 = 1
  /\ \A k \in 1..((Len(h) - 1) \div 2) :
       /\ h[2 * k].role = "human"
       /\ h[2 * k + 1].role = "ai"
       /\ h[2 * k].req > 0
       /\ h[2 * k + 1].req = h[2 * k].req
       /\ \A j \in 1..(k - 1) : h[2 * j].req # h[2 * k].req

\* C1: with requests run one after another, whenever no request is in flight
\* the transcript is the system turn followed by one (user, assistant) pair
\* per chat request received since the last reset; the reply of a request
\* whose answering call failed is the error marker with the failure's text,
\* returned to the caller and stored as its assistant turn.
C1_OneAssistantPerUser ==
  AllIdle =>
    /\ history[1].role = "system"
    /\ PairedAfterFirst(history)
    /\ Len(history) = 1 + 2 * (nrequests - cleared_at)
    /\ last.step = "AppendReply" =>
         LET t == history[Len(history)]
         IN  /\ t.role = "ai"
             /\ t.req = last.req
             /\ t.content = last.reply
             /\ history[Len(history) - 1].req = last.req
             /\ last.exception # "none" => t.content = << ERROR_PREFIX, last.exception >>
             /\ last.exception = "none" => Len(t.content) = 1 /\ t.content[1] \in Replies

C1_Witness ==
  /\ AllIdle
  /\ last.step = "AppendReply"
  /\ last.exception # "none"
  /\ Len(history) = 5
  /\ history[3].content[1] \in Replies

\* C2: once two concurrent chat requests have both completed (no reset
\* involved), the transcript after the system turn alternates user,
\* assistant, each assistant turn directly after the user turn of its request.
C2_NoInterleavedAppends ==
  (AllIdle /\ nclears = 0) =>
    /\ history[1].role = "system"
    /\ PairedAfterFirst(history)

\* C3: in every reachable state the transcript starts with the system turn
\* carrying the standing instructions and holds no other system turn.
C3_SingleSystemTurn ==
  /\ Len(history) >= 1
  /\ history[1] = SystemMessage(SYSTEM_PROMPT_STARTUP)
  /\ \A i \in 2..Len(history) : history[i].role # "system"

\* C4: the rewrite step of a chat request replaces the user turn that the same
\* request appended, still holding the plain question, and nothing else
\* (interleavings of chat requests, no reset involved).
C4_RewriteOnlyOwnTurn ==
  [][\A w \in Workers :
       (nclears = 0 /\ Rewrite(w)) =>
         LET n == Len(history)
         IN  /\ history[n].role = "human"
             /\ history[n].req = request[w]
             /\ history[n].content = << user_message[w] >>
             /\ \A i \in 1..(n - 1) : history'[i] = history[i]]_vars

\* The user turn of request r, as it should stand once the request is past its
\* rewrite, is the composed turn, whether or not there is a dataset.
ComposedTurn(t, q) ==
  /\ IsComposed(t)
  /\ t.content[1] = PROMPT_HEAD
  /\ t.content[2] = get_dataset_summary(df)
  /\ t.content[2].kind = IF df.loaded THEN "report" ELSE NOT_AVAILABLE
  /\ t.content[3] = PROMPT_ASK
  /\ t.content[4] = q
  /\ t.content[5] = PROMPT_REMINDER

PlainTurn(t, q) ==
  /\ IsPlain(t)
  /\ t.content[1] = q

PastRewrite(r) ==
  \A w \in Workers : request[w] = r => pc[w] \in {"L183", "pending", "L189"}

C6_ResetGivesInitialTranscript ==
  last.step = "clear_chat" =>
    /\ Len(history) = 1
    /\ history[1].role = "system"
    /\ history[1].content = SYSTEM_PROMPT_STARTUP
    /\ history = InitialHistory

C6_Witness ==
  /\ last.step = "clear_chat"
  /\ \E w \in Workers : pc[w] = "pending" /\ Len(transcript_sent[w]) = 4

\* ------------------------------------------------------ digest claims
\* The fraud subset and its groups, counted from df directly.
FraudRows ==
  IF "Fraud_Flag" \in df.columns
  THEN SelectSeq(df.rows, LAMBDA r : r["Fraud_Flag"] = 1)
  ELSE << >>

GroupValues(c) == {FraudRows[i][c] : i \in 1..Len(FraudRows)}
GroupCount(c, v) == Cardinality({i \in 1..Len(FraudRows) : FraudRows[i][c] = v})
FirstSeen(c, v) == CHOOSE i \in 1..Len(FraudRows) :
                     /\ FraudRows[i][c] = v
                     /\ \A j \in 1..(i - 1) : FraudRows[j][c] # v

Abs(x) == IF x < 0 THEN -x ELSE x

RECURSIVE SumPct(_)
SumPct(lines) == IF lines = << >> THEN 0 ELSE Head(lines).pct + SumPct(Tail(lines))

RECURSIVE SumCount(_)
SumCount(lines) == IF lines = << >> THEN 0 ELSE Head(lines).count + SumCount(Tail(lines))

\* The summary a worker holds once get_dataset_summary has returned.
Summarized(w) == pc[w] = "L163"

C8_FraudRate ==
  \A w \in Workers :
    Summarized(w) =>
      LET s     == dataset_summary[w]
          total == Len(df.rows)
          ones  == Len(FraudRows)
      IN  /\ s.kind = "report"
          /\ s.total_transactions = total
          /\ s.fraud_count = ones
          /\ s.fraud_rate.den > 0
          /\ total > 0 => s.fraud_rate.num * total = ones * 100 * s.fraud_rate.den
          /\ total = 0 => s.fraud_rate.num = 0
          /\ 0 <= s.fraud_rate.num
          /\ s.fraud_rate.num <= 100 * s.fraud_rate.den

C8_Witness ==
  \E w \in Workers :
    /\ Summarized(w)
    /\ dataset_summary[w].fraud_count = 3
    /\ dataset_summary[w].total_transactions = 4
    /\ dataset_summary[w].fraud_rate = [num |-> 300, den |-> 4]

C10_NoReplyAcrossReset ==
  \A i \in 1..Len(history) :
    history[i].role = "ai" =>
      /\ history[i].req > cleared_at
      /\ i > 1
      /\ history[i - 1].role = "human"

====
